---- MODULE Spec2Model ----
(***************************************************************************)
(* A model of py2neo's REST layer (src/py2neo/rest.py): PropertyCache,     *)
(* Client (connection cache, retry loop, redirect following) and Resource  *)
(* (status dispatch, lazy metadata lookup).                                *)
(*                                                                         *)
(* Conventions.  A Python value that may be None is a set with at most one *)
(* element: None is {} and the value v is {v}.  A dict is a function from  *)
(* its keys to its values; the empty dict is the function with the empty   *)
(* domain.  Strings that may be None (a URI, a Location header) use the    *)
(* string NoneStr, which Str turns into "None" as Python's str(None) does. *)
(***************************************************************************)
EXTENDS Integers, Sequences, FiniteSets, TLC

VARIABLES
    pc,                 \* "idle" | "attempt" | "done": position of the one caller
    op,                 \* "none" | "send" | "lookup" | "execute": the operation in progress
    key,                \* the key of the _lookup in progress
    request,            \* the Request object: [method, uri, body], uri is mutable
    tries,              \* Client._send_request: loop variable
    reconnect,          \* Client._send_request: local reconnect
    data,               \* Client._send_request: local data (payload)
    http,               \* Client.http:  netloc -> connection handle (0: no entry)
    https,              \* Client.https: netloc -> connection handle (0: no entry)
    outcome,            \* what the Resource operation returned or raised
    properties,         \* PropertyCache._properties
    max_age,            \* PropertyCache.max_age
    last_updated_time,  \* PropertyCache._last_updated_time
    now,                \* time.time()
    resource_uri,       \* Resource._uri (string form, base + reference)
    updateArg,          \* history: the argument of the latest PropertyCache.update
    orig,               \* history: the Request as the caller passed it
    followed,           \* history: the Location followed by the latest redirect
    reply,              \* history: status, Location header and body of the direct response
    response,           \* history: the Response that Client.send returned
    hops,               \* history: redirect responses the current Client.send received
    attempts,           \* history: exchanges attempted by each logical send of the
                        \*          current Client.send, one entry per logical send
    sent,               \* history: the latest exchange attempt: method, path and data
                        \*          put on the wire, handle used, how it ended
    gets,               \* history: GETs issued by the _lookup in progress
    wasFresh,           \* history: the cache had never been updated when _lookup began
    thread_client,      \* _thread_local.client of each thread: a Client, or 0 (no attribute)
    clients,            \* the Client objects constructed so far, in order of construction
    tpc,                \* position of each thread in local_client / Resource._client
    obtained,           \* history: the Clients each thread's calls have returned, in order
    connCall,           \* history: the latest direct call of Client._connection
    uri_arg,            \* the arguments of URI(uri, marker)
    uri_obj,            \* the URI object constructed, or the exception raised
    gremlin_uri         \* graph_db._gremlin_uri

vars == <<pc, op, key, request, tries, reconnect, data, http, https,
          outcome, properties, max_age, last_updated_time, now, resource_uri,
          updateArg, orig, followed, reply, response, hops, attempts, sent, gets,
          wasFresh, thread_client, clients, tpc, obtained, connCall, uri_arg, uri_obj,
          gremlin_uri>>

\* the state of the other components, which the Resource operations leave alone
otherVars == <<thread_client, clients, tpc, obtained, connCall, uri_arg, uri_obj, gremlin_uri>>

clientVars == <<pc, op, key, request, tries, reconnect, data, http, https,
                outcome, resource_uri, orig, followed, reply, response, hops,
                attempts, sent, gets, wasFresh, otherVars>>

cacheVars == <<properties, max_age, last_updated_time, updateArg>>

-----------------------------------------------------------------------------
(* Bounds of the model *)

\* MaxHops: the nested calls of Client.send that the interpreter's recursion limit
\* leaves room for below the caller (sys.getrecursionlimit(), scaled down)
MaxHops == 2
MaxClock == 2
MaxAge == 1
NumThreads == 3
MaxClientCalls == 2
MaxLen == 3
MaxMarker == 2

\* for tries in range(1, 4)
MaxTries == 3

-----------------------------------------------------------------------------
(* Python values *)

None == {}
Some(x) == {x}
Get(o) == CHOOSE x \in o : TRUE

NoneStr == "<None>"

\* str(x) for a URI or None
Str(u) == IF u = NoneStr THEN "None" ELSE u

EmptyDict == [k \in {} |-> ""]

\* bool(x) of a number-or-None: None and 0 are false
TruthyNum(o) == o # None /\ Get(o) # 0

\* bool(x) of a dict-or-None: None and {} are false
TruthyDict(o) == o # None /\ DOMAIN Get(o) # {}

Keys == {"name", "age"}
Dicts == {EmptyDict,
          [k \in {"name"} |-> "Alice"],
          [k \in {"name"} |-> "Bob"],
          [k \in {"age"} |-> "3"],
          [k \in {"name", "age"} |-> IF k = "name" THEN "Alice" ELSE "3"]}

-----------------------------------------------------------------------------
(* PropertyCache *)

\* PropertyCache.expired: None, or the comparison
Expired(lut, ma, t) ==
    IF TruthyNum(lut) /\ TruthyNum(ma)
    THEN Some(t - Get(lut) > Get(ma))
    ELSE None

\* as NeedsUpdate, but it is a cache never updated, not an empty one, that needs one
NeedsUpdateNeverUpdated(props, lut, ma, t) ==
    lut = None \/ Expired(lut, ma, t) = Some(TRUE)

\* as NeedsUpdate, but a cache that cannot tell its age counts as expired
NeedsUpdateUnlessFresh(props, lut, ma, t) ==
    DOMAIN props = {} \/ Expired(lut, ma, t) # Some(FALSE)

\* PropertyCache.needs_update, as a truth value: not self._properties or self.expired
NeedsUpdate(props, lut, ma, t) ==
    DOMAIN props = {} \/ Expired(lut, ma, t) = Some(TRUE)

\* dict.update(p): the keys of p are set, the other keys are kept
DictUpdate(d, p) ==
    [k \in DOMAIN d \cup DOMAIN p |-> IF k \in DOMAIN p THEN p[k] ELSE d[k]]

\* as UpdatedProperties, but the mapping is not cleared first
UpdatedPropertiesMerged(props, p) ==
    IF TruthyDict(p) THEN DictUpdate(props, Get(p)) ELSE props

\* the mapping after PropertyCache.update(p): cleared, then filled from p if p is truthy
UpdatedProperties(props, p) ==
    LET cleared == EmptyDict
    IN  IF TruthyDict(p) THEN DictUpdate(cleared, Get(p)) ELSE cleared

\* PropertyCache.update(p)
CacheUpdate(p) ==
    /\ properties' = UpdatedProperties(properties, p)
    /\ last_updated_time' = Some(now)
    /\ updateArg' = [called |-> TRUE, p |-> p]
    /\ UNCHANGED max_age

\* PropertyCache.clear()
CacheClear == CacheUpdate(None)

-----------------------------------------------------------------------------
(* URIs, JSON, Request and Response *)

AUTO_REDIRECTS == {301, 302, 303, 307, 308}

Netlocs == {"a", "b"}
Uris == {"http://a/r", "https://b/r?q", "ftp://a/r"}
Methods == {"GET", "POST"}

\* urlsplit(s)[0:4]: scheme, netloc, path, query
UrlSplit(s) ==
    CASE s = "http://a/r"    -> [scheme |-> "http",  netloc |-> "a", path |-> "/r", query |-> ""]
      [] s = "https://b/r?q" -> [scheme |-> "https", netloc |-> "b", path |-> "/r", query |-> "q"]
      [] s = "ftp://a/r"     -> [scheme |-> "ftp",   netloc |-> "a", path |-> "/r", query |-> ""]
      [] OTHER               -> [scheme |-> "",      netloc |-> "",  path |-> s,    query |-> ""]

\* the path put on the wire: path, plus "?" and the query when there is one
RequestPath(sp) == IF sp.query # "" THEN <<sp.path, "?", sp.query>> ELSE <<sp.path>>

\* request bodies a caller passes: None or a dict (gremlin.execute passes {'script': script})
RequestBodies == {None, Some([k \in {"script"} |-> "g.v(0)"])}

\* a payload is None or [obj, enc]: the object obj serialised enc times by json.dumps
Payload(body) == IF body = None THEN None ELSE Some([obj |-> Get(body), enc |-> 0])

\* if data is not None: data = json.dumps(data)
Dumps(d) == IF d # None THEN Some([obj |-> Get(d).obj, enc |-> Get(d).enc + 1]) ELSE d

\* bodies a server answers with, undecoded
RawBodies == {"junk", "null", "{}", "{\"name\": \"Alice\"}"}

\* json.loads(raw) raises ValueError
LoadsFails(raw) == raw \notin {"null", "{}", "{\"name\": \"Alice\"}"}

\* json.loads(raw) where it succeeds
Loads(raw) ==
    CASE raw = "{}"                    -> Some(EmptyDict)
      [] raw = "{\"name\": \"Alice\"}" -> Some([k \in {"name"} |-> "Alice"])
      [] OTHER                         -> None

\* as DecodedBody, but a body that cannot be decoded counts as the empty object
DecodedBodyOrEmpty(raw) == IF LoadsFails(raw) THEN Some(EmptyDict) ELSE Loads(raw)

\* rs_body after the try/except around json.loads
DecodedBody(raw) == IF LoadsFails(raw) THEN None ELSE Loads(raw)

NoRequest == [method |-> "", uri |-> NoneStr, body |-> None]

\* Response(graph_db, status, uri, location, body); uri is str(uri)
Response(status, uri, location, body) ==
    [status |-> status, uri |-> Str(uri), location |-> location, body |-> body]

-----------------------------------------------------------------------------
(* What a Resource operation returned or raised *)

Pending == [kind |-> "pending", type |-> "", response |-> None, uri |-> NoneStr,
            body |-> None, value |-> ""]
Returned(resp) == [Pending EXCEPT !.kind = "return", !.type = "Response", !.response = Some(resp)]
ReturnedNone == [Pending EXCEPT !.kind = "return", !.type = "None"]
ReturnedValue(v) == [Pending EXCEPT !.kind = "return", !.type = "value", !.value = v]
\* a decoded response body (a dict or None) is returned
ReturnedBody(b) == [Pending EXCEPT !.kind = "return", !.type = "body", !.body = b]
\* an exception of class type; uri and body are what its constructor was given
Raised(type, uri, body) ==
    [Pending EXCEPT !.kind = "raise", !.type = type, !.uri = uri, !.body = body]

-----------------------------------------------------------------------------
(* Client: the connection cache *)

\* httplib.HTTPConnection(netloc) / HTTPSConnection(netloc): a new connection object.
\* Handles are positive integers; a new object is one that no mapping holds (the
\* identity of an object nothing refers to any more may be used again).
NewHandle ==
    CHOOSE h \in 1..(2 * Cardinality(Netlocs) + 1) :
        /\ \A n \in Netlocs : http[n] # h /\ https[n] # h
        /\ \A g \in 1..(h - 1) : \E n \in Netlocs : http[n] = g \/ https[n] = g

\* Client._http_connection(netloc, reconnect): the mappings and the handle returned
HttpConnection(netloc, rc) ==
    IF http[netloc] = 0 \/ rc
    THEN [ok |-> TRUE, http |-> [http EXCEPT ![netloc] = NewHandle], https |-> https,
          handle |-> NewHandle]
    ELSE [ok |-> TRUE, http |-> http, https |-> https, handle |-> http[netloc]]

\* as HttpsConnection, but over the mapping of the http connections
HttpsConnectionInHttp(netloc, rc) ==
    IF http[netloc] = 0 \/ rc
    THEN [ok |-> TRUE, http |-> [http EXCEPT ![netloc] = NewHandle], https |-> https,
          handle |-> NewHandle]
    ELSE [ok |-> TRUE, http |-> http, https |-> https, handle |-> http[netloc]]

\* Client._https_connection(netloc, reconnect)
HttpsConnection(netloc, rc) ==
    IF https[netloc] = 0 \/ rc
    THEN [ok |-> TRUE, http |-> http, https |-> [https EXCEPT ![netloc] = NewHandle],
          handle |-> NewHandle]
    ELSE [ok |-> TRUE, http |-> http, https |-> https, handle |-> https[netloc]]

\* as Connection, but the cached handle is kept on a retry
ConnectionKeepsHandle(scheme, netloc, rc) ==
    IF scheme = "http" THEN HttpConnection(netloc, FALSE)
    ELSE IF scheme = "https" THEN HttpsConnection(netloc, FALSE)
    ELSE [ok |-> FALSE, http |-> http, https |-> https, handle |-> 0]

\* Client._connection(scheme, netloc, reconnect); ok = FALSE: ValueError raised
Connection(scheme, netloc, rc) ==
    IF scheme = "http" THEN HttpConnection(netloc, rc)
    ELSE IF scheme = "https" THEN HttpsConnection(netloc, rc)
    ELSE [ok |-> FALSE, http |-> http, https |-> https, handle |-> 0]

-----------------------------------------------------------------------------
(* Resource._send and Resource._lookup, after Client.send returned *)

\* as Dispatch, but only status 500 is taken for a server error
DispatchOnly500(rs, uri) ==
    IF rs.status = 200 THEN Returned(rs)
    ELSE IF rs.status = 201 THEN Returned(rs)
    ELSE IF rs.status = 204 THEN ReturnedNone
    ELSE IF rs.status = 400 THEN Raised("BadRequest", NoneStr, rs.body)
    ELSE IF rs.status = 404 THEN Raised("ResourceNotFound", uri, None)
    ELSE IF rs.status = 409 THEN Raised("ResourceConflict", uri, None)
    ELSE IF rs.status = 500 THEN Raised("SystemError", NoneStr, rs.body)
    ELSE ReturnedNone

\* as Dispatch, but 404 and 409 carry the Location header of the response
DispatchLocation(rs, uri) ==
    IF rs.status = 200 THEN Returned(rs)
    ELSE IF rs.status = 201 THEN Returned(rs)
    ELSE IF rs.status = 204 THEN ReturnedNone
    ELSE IF rs.status = 400 THEN Raised("BadRequest", NoneStr, rs.body)
    ELSE IF rs.status = 404 THEN Raised("ResourceNotFound", rs.location, None)
    ELSE IF rs.status = 409 THEN Raised("ResourceConflict", rs.location, None)
    ELSE IF rs.status \div 100 = 5 THEN Raised("SystemError", NoneStr, rs.body)
    ELSE ReturnedNone

\* Resource._send: the status dispatch on the Response of Client.send
Dispatch(rs, uri) ==
    IF rs.status = 200 THEN Returned(rs)
    ELSE IF rs.status = 201 THEN Returned(rs)
    ELSE IF rs.status = 204 THEN ReturnedNone
    ELSE IF rs.status = 400 THEN Raised("BadRequest", NoneStr, rs.body)
    ELSE IF rs.status = 404 THEN Raised("ResourceNotFound", uri, None)
    ELSE IF rs.status = 409 THEN Raised("ResourceConflict", uri, None)
    ELSE IF rs.status \div 100 = 5 THEN Raised("SystemError", NoneStr, rs.body)
    ELSE ReturnedNone

\* Resource._lookup, after the cache is up to date: self._metadata[key] or KeyError(key)
Read(props, k) ==
    IF k \in DOMAIN props THEN ReturnedValue(props[k]) ELSE Raised("KeyError", NoneStr, None)

\* as Finish, but a _lookup whose refresh did not give a Response clears the cache
FinishClearing(out) ==
    /\ pc' = "done"
    /\ IF op = "lookup" /\ out.kind = "return" /\ out.type = "Response"
       THEN /\ CacheUpdate(Get(out.response).body)
            /\ outcome' = Read(UpdatedProperties(properties, Get(out.response).body), key)
       ELSE /\ outcome' = IF op = "lookup" /\ out.kind = "return"
                          THEN Raised("AttributeError", NoneStr, None)
                          ELSE IF op = "execute" /\ out.kind = "return"
                          THEN IF out.type = "Response"
                               THEN ReturnedBody(Get(out.response).body)
                               ELSE Raised("AttributeError", NoneStr, None)
                          ELSE out
            /\ IF op = "lookup" THEN CacheClear ELSE UNCHANGED cacheVars

\* The caller gets out: the operation is over.  For _lookup, out is what the
\* refresh _send returned or raised: an exception propagates, rs = None makes
\* rs.body raise AttributeError, and a Response updates the cache before the read.
\* For gremlin.execute, out is what its _send returned or raised: an exception
\* propagates, rs = None makes rs.body raise AttributeError, else rs.body is returned.
Finish(out) ==
    /\ pc' = "done"
    /\ IF op = "lookup" /\ out.kind = "return" /\ out.type = "Response"
       THEN /\ CacheUpdate(Get(out.response).body)
            /\ outcome' = Read(UpdatedProperties(properties, Get(out.response).body), key)
       ELSE /\ outcome' = IF op = "lookup" /\ out.kind = "return"
                          THEN Raised("AttributeError", NoneStr, None)
                          ELSE IF op = "execute" /\ out.kind = "return"
                          THEN IF out.type = "Response"
                               THEN ReturnedBody(Get(out.response).body)
                               ELSE Raised("AttributeError", NoneStr, None)
                          ELSE out
            /\ UNCHANGED cacheVars

-----------------------------------------------------------------------------
(* Entry points *)

\* as BeginSendRequest, but the body is dropped (a redirect followed as a plain GET)
BeginSendRequestNoBody(req) ==
    /\ request' = [req EXCEPT !.body = None]
    /\ tries' = 1
    /\ reconnect' = FALSE
    /\ data' = None

\* a logical send begins: Client._send_request(request.method, request.uri, request.body)
BeginSendRequest(req) ==
    /\ request' = req
    /\ tries' = 1
    /\ reconnect' = FALSE
    /\ data' = Payload(req.body)

\* Resource._send(request), called from outside with a Request of the caller's
SendCall ==
    /\ pc = "idle"
    /\ \E m \in Methods, u \in Uris, b \in RequestBodies :
          /\ BeginSendRequest([method |-> m, uri |-> u, body |-> b])
          /\ orig' = [method |-> m, uri |-> u, body |-> b]
    /\ pc' = "attempt"
    /\ op' = "send"
    /\ hops' = 0
    /\ attempts' = <<0>>
    /\ UNCHANGED <<key, http, https, outcome, cacheVars, now, resource_uri, otherVars, followed,
                   reply, response, sent, gets, wasFresh>>

\* Resource._lookup(key) when the cache needs an update: GET the resource's URI
LookupRefresh ==
    /\ pc = "idle"
    /\ NeedsUpdate(properties, last_updated_time, max_age, now)
    /\ \E k \in Keys : key' = k
    /\ BeginSendRequest([method |-> "GET", uri |-> resource_uri, body |-> None])
    /\ orig' = [method |-> "GET", uri |-> resource_uri, body |-> None]
    /\ pc' = "attempt"
    /\ op' = "lookup"
    /\ hops' = 0
    /\ attempts' = <<0>>
    /\ gets' = 1
    /\ wasFresh' = (last_updated_time = None)
    /\ UNCHANGED <<http, https, outcome, cacheVars, now, resource_uri, otherVars, followed, reply,
                   response, sent>>

\* Resource._lookup(key) when the cache is up to date: no request
LookupCached ==
    /\ pc = "idle"
    /\ ~NeedsUpdate(properties, last_updated_time, max_age, now)
    /\ \E k \in Keys : /\ key' = k
                        /\ outcome' = Read(properties, k)
    /\ pc' = "done"
    /\ op' = "lookup"
    /\ gets' = 0
    /\ wasFresh' = (last_updated_time = None)
    /\ UNCHANGED <<request, tries, reconnect, data, http, https, cacheVars, now,
                   resource_uri, otherVars, orig, followed, reply, response, hops, attempts, sent>>

-----------------------------------------------------------------------------
(* Client._send_request: one iteration of the loop is one step *)

NoSent == [method |-> "", path |-> <<>>, data |-> None, conn |-> 0, result |-> ""]
NoReply == [status |-> 0, location |-> NoneStr, raw |-> ""]

FinalStatuses == {200, 201, 202, 204, 400, 404, 409, 500, 599, 600}
LocationHeaders == Uris \cup {NoneStr}
ErrObject == "<socket.error>"

Split == UrlSplit(Str(request.uri))
Conn == Connection(Split.scheme, Split.netloc, reconnect)
Last(q) == q[Len(q)]
Bump(q) == [q EXCEPT ![Len(q)] = @ + 1]

\* http = self._connection(...); data = json.dumps(data); http.request(method, path, data, headers)
Exchange(result) ==
    /\ pc = "attempt"
    /\ Conn.ok
    /\ http' = Conn.http
    /\ https' = Conn.https
    /\ sent' = [method |-> request.method, path |-> RequestPath(Split),
                data |-> Dumps(data), conn |-> Conn.handle, result |-> result]

\* self._connection raises ValueError: nothing catches it on the way to the caller
UnsupportedScheme ==
    /\ pc = "attempt"
    /\ ~Conn.ok
    /\ Finish(Raised("ValueError", NoneStr, None))
    /\ UNCHANGED <<op, key, request, tries, reconnect, data, http, https, now,
                   resource_uri, otherVars, orig, followed, reply, response, hops, attempts, sent,
                   gets, wasFresh>>

\* the exchange raises httplib.HTTPException: retry with reconnect while tries < 3,
\* else re-raise; Resource._send does not catch it
ExchangeHTTPException ==
    /\ Exchange("HTTPException")
    /\ attempts' = Bump(attempts)
    /\ data' = Dumps(data)
    /\ IF tries < MaxTries
       THEN /\ reconnect' = TRUE
            /\ tries' = tries + 1
            /\ UNCHANGED <<pc, outcome, cacheVars>>
       ELSE /\ Finish(Raised("HTTPException", NoneStr, None))
            /\ UNCHANGED <<reconnect, tries>>
    /\ UNCHANGED <<op, key, request, now, resource_uri, otherVars, orig, followed, reply, response,
                   hops, gets, wasFresh>>

\* the exchange raises socket.error: _send_request does not catch it, Resource._send
\* raises SocketError(err)
ExchangeSocketError ==
    /\ Exchange("socket.error")
    /\ attempts' = Bump(attempts)
    /\ data' = Dumps(data)
    /\ Finish(Raised("SocketError", ErrObject, None))
    /\ UNCHANGED <<op, key, request, tries, reconnect, now, resource_uri, otherVars, orig, followed,
                   reply, response, hops, gets, wasFresh>>

\* as ExchangeRedirect, but only the first redirect is followed: the response to the
\* redirected request is handed back as it is, whatever its status
ExchangeRedirectOnce ==
    /\ hops < MaxHops
    /\ \E status \in AUTO_REDIRECTS, loc \in LocationHeaders :
          /\ Exchange("response")
          /\ IF hops = 0
             THEN /\ BeginSendRequest([request EXCEPT !.uri = loc])
                  /\ followed' = loc
                  /\ hops' = hops + 1
                  /\ attempts' = Append(Bump(attempts), 0)
                  /\ UNCHANGED <<pc, outcome, cacheVars, reply, response>>
             ELSE /\ reply' = [status |-> status, location |-> loc, raw |-> "null"]
                  /\ response' = Some(Response(status, request.uri, loc, None))
                  /\ Finish(Dispatch(Response(status, request.uri, loc, None), request.uri))
                  /\ attempts' = Bump(attempts)
                  /\ data' = Dumps(data)
                  /\ UNCHANGED <<request, tries, reconnect, followed, hops>>
    /\ UNCHANGED <<op, key, now, resource_uri, otherVars, orig, gets, wasFresh>>

\* Client.send: the response is a redirect; request.uri = Location, send again
ExchangeRedirect ==
    /\ hops < MaxHops
    /\ \E status \in AUTO_REDIRECTS, loc \in LocationHeaders :
          /\ Exchange("response")
          /\ BeginSendRequest([request EXCEPT !.uri = loc])
          /\ followed' = loc
    /\ hops' = hops + 1
    /\ attempts' = Append(Bump(attempts), 0)
    /\ UNCHANGED <<pc, op, key, outcome, cacheVars, now, resource_uri, otherVars, orig, reply,
                   response, gets, wasFresh>>

\* Client.send: the response is a redirect and request.uri = Location is done, but
\* send is MaxHops calls deep in itself and the recursion limit leaves no room for
\* the next call: RuntimeError (maximum recursion depth exceeded), which neither
\* Client.send nor Resource._send catches
RecursionExhausted ==
    /\ hops = MaxHops
    /\ \E status \in AUTO_REDIRECTS, loc \in LocationHeaders :
          /\ Exchange("response")
          /\ request' = [request EXCEPT !.uri = loc]
          /\ followed' = loc
    /\ hops' = hops + 1
    /\ attempts' = Bump(attempts)
    /\ data' = Dumps(data)
    /\ Finish(Raised("RuntimeError", NoneStr, None))
    /\ UNCHANGED <<op, key, tries, reconnect, now, resource_uri, otherVars, orig, reply,
                   response, gets, wasFresh>>

\* Client.send: a direct response; Resource._send dispatches on its status
ExchangeResponse ==
    /\ \E status \in FinalStatuses, loc \in {NoneStr, "https://b/r?q"}, raw \in RawBodies :
          /\ Exchange("response")
          /\ reply' = [status |-> status, location |-> loc, raw |-> raw]
          /\ response' = Some(Response(status, request.uri, loc, DecodedBody(raw)))
          /\ Finish(Dispatch(Response(status, request.uri, loc, DecodedBody(raw)),
                             request.uri))
    /\ attempts' = Bump(attempts)
    /\ data' = Dumps(data)
    /\ UNCHANGED <<op, key, request, tries, reconnect, now, resource_uri, otherVars, orig, followed,
                   hops, gets, wasFresh>>

\* the caller takes the result; the locals of the call are gone
Return ==
    /\ pc = "done"
    /\ pc' = "idle"
    /\ op' = "none"
    /\ key' = ""
    /\ request' = NoRequest
    /\ tries' = 0
    /\ reconnect' = FALSE
    /\ data' = None
    /\ outcome' = Pending
    /\ orig' = NoRequest
    /\ followed' = NoneStr
    /\ reply' = NoReply
    /\ response' = None
    /\ hops' = 0
    /\ attempts' = <<>>
    /\ sent' = NoSent
    /\ gets' = 0
    /\ wasFresh' = FALSE
    /\ UNCHANGED <<http, https, cacheVars, now, resource_uri, otherVars>>

\* time passes, up to the time t
Advance(t) ==
    /\ pc = "idle"
    /\ now < t
    /\ now' = now + 1
    /\ UNCHANGED <<clientVars, cacheVars>>

Tick == Advance(MaxClock)

-----------------------------------------------------------------------------
(* The Resource and its Client *)

\* PropertyCache.__init__(properties, max_age) at time t
CacheInit(p, ma, t) ==
    /\ properties = UpdatedProperties(EmptyDict, p)
    /\ max_age = ma
    /\ last_updated_time = IF TruthyDict(p) THEN Some(t) ELSE None
    /\ updateArg = [called |-> TruthyDict(p), p |-> IF TruthyDict(p) THEN p ELSE None]

ClientInit ==
    /\ pc = "idle"
    /\ op = "none"
    /\ key = ""
    /\ request = NoRequest
    /\ tries = 0
    /\ reconnect = FALSE
    /\ data = None
    /\ http = [n \in Netlocs |-> 0]
    /\ https = [n \in Netlocs |-> 0]
    /\ outcome = Pending
    /\ orig = NoRequest
    /\ followed = NoneStr
    /\ reply = NoReply
    /\ response = None
    /\ hops = 0
    /\ attempts = <<>>
    /\ sent = NoSent
    /\ gets = 0
    /\ wasFresh = FALSE

Threads == 1..NumThreads

\* threading.local(): no thread has a client attribute; no Client constructed yet
ThreadLocalInit ==
    /\ thread_client = [t \in Threads |-> 0]
    /\ clients = <<>>
    /\ tpc = [t \in Threads |-> "idle"]
    /\ obtained = [t \in Threads |-> <<>>]

NoConnCall == [scheme |-> "", netloc |-> "", reconnect |-> FALSE, ok |-> TRUE, handle |-> 0]
NoUriArg == [uri |-> <<>>, marker |-> <<>>]
NoUri == [state |-> "none", base |-> <<>>, reference |-> <<>>]

\* nothing but the one Resource and its Client is in use
OtherInit ==
    /\ ThreadLocalInit
    /\ connCall = NoConnCall
    /\ uri_arg = NoUriArg
    /\ uri_obj = NoUri
    /\ gremlin_uri = NoneStr

\* Resource(uri, reference_marker, metadata) at time 1, with a new Client;
\* the metadata cache is PropertyCache(metadata), without max_age
ResourceInit(uri, metadata) ==
    /\ ClientInit
    /\ now = 1
    /\ resource_uri = uri
    /\ CacheInit(metadata, None, now)

Init == ResourceInit("http://a/r", None) /\ OtherInit

\* the operations of the Client under Resource._send
Next ==
    \/ SendCall
    \/ UnsupportedScheme
    \/ ExchangeHTTPException
    \/ ExchangeSocketError
    \/ ExchangeRedirect
    \/ ExchangeResponse
    \/ Return

Spec == Init /\ [][Next]_vars

\* Resource._send with redirect chains of any length: the recursion of Client.send
\* to the end of the stack
RedirectNext ==
    \/ SendCall
    \/ UnsupportedScheme
    \/ ExchangeHTTPException
    \/ ExchangeSocketError
    \/ ExchangeRedirect
    \/ RecursionExhausted
    \/ ExchangeResponse
    \/ Return

RedirectSpec == Init /\ [][RedirectNext]_vars

\* Resource._lookup over the same Client
LookupNext ==
    \/ LookupRefresh
    \/ LookupCached
    \/ UnsupportedScheme
    \/ ExchangeHTTPException
    \/ ExchangeSocketError
    \/ ExchangeRedirect
    \/ ExchangeResponse
    \/ Return
    \/ Tick

LookupInit ==
    /\ \E metadata \in {None, Some([k \in {"name"} |-> "Bob"])} :
          ResourceInit("http://a/r", metadata)
    /\ OtherInit

LookupSpec == LookupInit /\ [][LookupNext]_vars

-----------------------------------------------------------------------------
(* A PropertyCache on its own, with any max_age *)

CacheUpdateCall ==
    /\ \E p \in {None} \cup {Some(d) : d \in Dicts} : CacheUpdate(p)
    /\ UNCHANGED <<clientVars, now>>

CacheClearCall ==
    /\ CacheClear
    /\ UNCHANGED <<clientVars, now>>

CacheSpecInit ==
    /\ ClientInit
    /\ now = 1
    /\ resource_uri = "http://a/r"
    /\ \E p \in {None} \cup {Some(d) : d \in Dicts},
          ma \in {None} \cup {Some(a) : a \in 0..MaxAge} : CacheInit(p, ma, now)
    /\ OtherInit

\* long enough for the greatest max_age to be exceeded
CacheTick == Advance(MaxAge + 3)

CacheNext ==
    \/ CacheUpdateCall
    \/ CacheClearCall
    \/ CacheTick

CacheSpec == CacheSpecInit /\ [][CacheNext]_vars

-----------------------------------------------------------------------------
(* local_client() and Resource._client(): one Client per thread.  The two     *)
(* functions have the same body over the same module-level _thread_local; a   *)
(* thread's call is three steps (hasattr, the assignment, the read returned), *)
(* between which other threads run.                                           *)

\* the one Resource, its Client and its cache
resourceVars == <<pc, op, key, request, tries, reconnect, data, http, https, outcome,
                  resource_uri, orig, followed, reply, response, hops, attempts, sent,
                  gets, wasFresh, cacheVars, now>>

\* what a step of local_client / Resource._client leaves alone
nonThreadVars == <<resourceVars, connCall, uri_arg, uri_obj, gremlin_uri>>

\* as Slot, but the attribute is one module-level slot that all threads share
SlotShared(t) == 1

\* threading.local(): the attribute storage that thread t reads and writes
Slot(t) == t

\* Client.__init__: self.http = {} and self.https = {}, two new dicts
NewClient == [http |-> 2 * Len(clients) + 1, https |-> 2 * Len(clients) + 2]

\* if not hasattr(_thread_local, "client")
ClientCheck(t) ==
    /\ tpc[t] = "idle"
    /\ Len(obtained[t]) < MaxClientCalls
    /\ tpc' = [tpc EXCEPT ![t] = IF thread_client[Slot(t)] = 0 THEN "create" ELSE "return"]
    /\ UNCHANGED <<thread_client, clients, obtained, nonThreadVars>>

\* _thread_local.client = Client()
ClientCreate(t) ==
    /\ tpc[t] = "create"
    /\ clients' = Append(clients, NewClient)
    /\ thread_client' = [thread_client EXCEPT ![Slot(t)] = Len(clients) + 1]
    /\ tpc' = [tpc EXCEPT ![t] = "return"]
    /\ UNCHANGED <<obtained, nonThreadVars>>

\* return _thread_local.client
ClientReturn(t) ==
    /\ tpc[t] = "return"
    /\ obtained' = [obtained EXCEPT ![t] = Append(@, thread_client[Slot(t)])]
    /\ tpc' = [tpc EXCEPT ![t] = "idle"]
    /\ UNCHANGED <<thread_client, clients, nonThreadVars>>

ThreadInit ==
    /\ ResourceInit("http://a/r", None)
    /\ OtherInit

ThreadNext ==
    \/ \E t \in Threads : ClientCheck(t)
    \/ \E t \in Threads : ClientCreate(t)
    \/ \E t \in Threads : ClientReturn(t)

ThreadSpec == ThreadInit /\ [][ThreadNext]_vars

-----------------------------------------------------------------------------
(* Client._connection called on its own, with any arguments *)

Schemes == {"http", "https", "ftp", ""}

\* client._connection(scheme, netloc, reconnect)
ConnectionCall ==
    /\ pc = "idle"
    /\ \E scheme \in Schemes, netloc \in Netlocs, rc \in BOOLEAN :
          LET c == Connection(scheme, netloc, rc)
          IN  /\ http' = c.http
              /\ https' = c.https
              /\ connCall' = [scheme |-> scheme, netloc |-> netloc, reconnect |-> rc,
                              ok |-> c.ok, handle |-> c.handle]
    /\ UNCHANGED <<pc, op, key, request, tries, reconnect, data, outcome, resource_uri,
                   orig, followed, reply, response, hops, attempts, sent, gets, wasFresh,
                   cacheVars, now, thread_client, clients, tpc, obtained, uri_arg,
                   uri_obj, gremlin_uri>>

ConnInit ==
    /\ ResourceInit("http://a/r", None)
    /\ OtherInit

ConnNext == ConnectionCall

ConnSpec == ConnInit /\ [][ConnNext]_vars

-----------------------------------------------------------------------------
(* gremlin.execute(script, graph_db) over the Resource graph_db *)

Scripts == {"g.v(0)", "g.V"}
GremlinUris == {NoneStr, "http://a/r", "https://b/r?q"}

\* rest.Request(graph_db, "POST", graph_db._gremlin_uri, {'script': script})
ScriptRequest(script) ==
    [method |-> "POST", uri |-> gremlin_uri, body |-> Some([k \in {"script"} |-> script])]

\* graph_db._gremlin_uri is None: raise NotImplementedError
ExecuteUnavailable ==
    /\ pc = "idle"
    /\ gremlin_uri = NoneStr
    /\ pc' = "done"
    /\ op' = "execute"
    /\ outcome' = Raised("NotImplementedError", NoneStr, None)
    /\ UNCHANGED <<key, request, tries, reconnect, data, http, https, cacheVars, now,
                   resource_uri, otherVars, orig, followed, reply, response, hops,
                   attempts, sent, gets, wasFresh>>

\* rs = graph_db._send(Request(graph_db, "POST", graph_db._gremlin_uri, {'script': script}))
ExecuteCall ==
    /\ pc = "idle"
    /\ gremlin_uri # NoneStr
    /\ \E script \in Scripts :
          /\ BeginSendRequest(ScriptRequest(script))
          /\ orig' = ScriptRequest(script)
    /\ pc' = "attempt"
    /\ op' = "execute"
    /\ hops' = 0
    /\ attempts' = <<0>>
    /\ UNCHANGED <<key, http, https, outcome, cacheVars, now, resource_uri, otherVars,
                   followed, reply, response, sent, gets, wasFresh>>

ExecInit ==
    /\ ResourceInit("http://a/r", None)
    /\ ThreadLocalInit
    /\ connCall = NoConnCall
    /\ uri_arg = NoUriArg
    /\ uri_obj = NoUri
    /\ gremlin_uri \in GremlinUris

ExecNext ==
    \/ ExecuteUnavailable
    \/ ExecuteCall
    \/ UnsupportedScheme
    \/ ExchangeHTTPException
    \/ ExchangeSocketError
    \/ ExchangeRedirect
    \/ ExchangeResponse
    \/ Return

ExecSpec == ExecInit /\ [][ExecNext]_vars

-----------------------------------------------------------------------------
(* URI(uri, marker): strings are sequences of characters *)

Chars == {"a", "/"}
Strings(n) == UNION {[1..k -> Chars] : k \in 0..n}

\* m is in s at position i
Occurs(s, m, i) == i + Len(m) - 1 <= Len(s) /\ SubSeq(s, i, i + Len(m) - 1) = m

\* as RFind, but the first position of m in s
Find(s, m) ==
    LET at == {i \in 1..Len(s) : Occurs(s, m, i)}
    IN  IF at = {} THEN 0 ELSE CHOOSE i \in at : \A j \in at : i <= j

\* the last position of m in s, 0 if there is none (m is not empty)
RFind(s, m) ==
    LET at == {i \in 1..Len(s) : Occurs(s, m, i)}
    IN  IF at = {} THEN 0 ELSE CHOOSE i \in at : \A j \in at : i >= j

\* s.rpartition(m): ValueError for the empty separator, else the three parts
RPartition(s, m) ==
    IF m = <<>> THEN [ok |-> FALSE, bits |-> <<>>]
    ELSE IF RFind(s, m) = 0 THEN [ok |-> TRUE, bits |-> << <<>>, <<>>, s >>]
    ELSE [ok |-> TRUE,
          bits |-> << SubSeq(s, 1, RFind(s, m) - 1), m,
                      SubSeq(s, RFind(s, m) + Len(m), Len(s)) >>]

\* URI.__init__(uri, marker) for a string uri
UriConstruct ==
    /\ uri_obj.state = "none"
    /\ LET bits == RPartition(uri_arg.uri, uri_arg.marker)
       IN  uri_obj' = IF bits.ok
                      THEN [state |-> "URI", base |-> bits.bits[1],
                            reference |-> bits.bits[2] \o bits.bits[3]]
                      ELSE [state |-> "ValueError", base |-> <<>>, reference |-> <<>>]
    /\ UNCHANGED <<resourceVars, thread_client, clients, tpc, obtained, connCall, uri_arg,
                   gremlin_uri>>

UriInit ==
    /\ ResourceInit("http://a/r", None)
    /\ ThreadLocalInit
    /\ connCall = NoConnCall
    /\ gremlin_uri = NoneStr
    /\ uri_arg \in [uri : Strings(MaxLen), marker : Strings(MaxMarker)]
    /\ uri_obj = NoUri

UriNext == UriConstruct

UriSpec == UriInit /\ [][UriNext]_vars

-----------------------------------------------------------------------------
(* Claims about Resource._send over the Client's retry loop (Spec) *)

TransportFailures == {"HTTPException", "socket.error"}
Supported(u) == UrlSplit(Str(u)).scheme \in {"http", "https"}

\* the entry of the mappings that the request's URI selects
Cached == IF Split.scheme = "http" THEN http[Split.netloc] ELSE https[Split.netloc]

\* this step makes an exchange attempt
AttemptMade == pc = "attempt" /\ attempts' # attempts

\* C1: retry transparency.  A transport-layer failure (HTTP-protocol exception or
\* socket-level error) of attempt 1 or 2 is retried and does not reach the caller:
\* when the operation ends on a failed exchange, that exchange was attempt 3, and
\* when it ends on a response, the caller sees no transport error.
C1_RetryTransparency ==
    pc = "done" /\ op = "send" /\ sent # NoSent =>
        /\ sent.result \in TransportFailures => Last(attempts) = MaxTries
        /\ sent.result = "response" => outcome.type \notin {"HTTPException", "SocketError"}

\* C2: exhausted retries.  When all 3 attempts of a logical send failed with a
\* transport-layer exception, Resource._send fails with SocketError, and the error
\* carries the request URI.
C2_ExhaustedRetries ==
    pc = "done" /\ op = "send" /\ Last(attempts) = MaxTries
                /\ sent.result \in TransportFailures =>
        /\ outcome.kind = "raise"
        /\ outcome.type = "SocketError"
        /\ outcome.uri = request.uri

\* C3 as stated: every logical send makes at least 1 and at most 3 exchange attempts.
C3_OneToThreeAttempts ==
    /\ \A i \in 1..(Len(attempts) - 1) : attempts[i] \in 1..MaxTries
    /\ pc = "done" /\ attempts # <<>> => Last(attempts) \in 1..MaxTries

\* the state part of C3: the attempts of every logical send
C3_Budget ==
    /\ \A i \in 1..Len(attempts) : attempts[i] \in 0..MaxTries
    /\ \A i \in 1..(Len(attempts) - 1) : attempts[i] >= 1
    /\ pc = "done" /\ attempts # <<>> /\ Supported(request.uri) => Last(attempts) >= 1
    /\ pc = "attempt" => tries = Last(attempts) + 1
    /\ Len(attempts) = (IF pc = "idle" THEN 0 ELSE hops + 1) \/ attempts = <<>>

\* the step part of C3: a retry follows an HTTPException and uses a new handle that
\* replaces the cached one; a redirect starts a logical send with a fresh budget
C3_Step ==
    /\ AttemptMade /\ Last(attempts) >= 1 =>
          /\ sent.result = "HTTPException"
          /\ sent'.conn # sent.conn
          /\ sent'.conn # Cached
          /\ \A n \in Netlocs : http[n] # sent'.conn /\ https[n] # sent'.conn
          /\ sent'.conn = (IF Split.scheme = "http" THEN http'[Split.netloc]
                                                    ELSE https'[Split.netloc])
    /\ hops' = hops + 1 =>
          /\ tries' = 1
          /\ ~reconnect'
          /\ Last(attempts') = 0

\* C3, amended: every logical send makes at most 3 exchange attempts, and at least 1
\* when the scheme of its URI is http or https; an attempt after the first is made
\* only after the previous one failed with a transport-layer exception, and it first
\* replaces the cached handle of that (scheme, netloc) with a newly created one; each
\* redirect hop is a logical send of its own with a fresh budget of 3 attempts.
C3_RetryDiscipline == [](C3_Budget) /\ [][C3_Step]_vars

\* C3's case: a send that was redirected after 3 attempts and retried again after it
C3_Witness ==
    /\ pc = "done"
    /\ Len(attempts) = 2
    /\ attempts[1] = MaxTries
    /\ attempts[2] = MaxTries
    /\ outcome.type = "Response"

\* the Response that Client.send handed to Resource._send, where there is one
Rs == Get(response)

C5_LocationUnset ==
    pc = "done" /\ op = "send" /\ response # None /\ hops >= 1 =>
        /\ Rs.uri = followed
        /\ Rs.location = NoneStr

\* C5, amended: after redirects Client.send returns the Response of the final,
\* non-redirect exchange: its status and decoded body are those of that exchange, its
\* uri is the last Location followed, its location field is the Location header of
\* that final response (unset only when the response has none), and every hop's
\* logical send is started with the method and the body of the original request.
C5_RedirectFollowing ==
    /\ pc = "done" /\ op = "send" /\ response # None =>
          /\ Rs.status = reply.status
          /\ Rs.status \notin AUTO_REDIRECTS
          /\ Rs.uri = (IF hops >= 1 THEN followed ELSE orig.uri)
          /\ Rs.location = reply.location
          /\ Rs.body = (IF reply.raw \in {"{}", "{\"name\": \"Alice\"}"}
                        THEN Loads(reply.raw) ELSE None)
          /\ sent.method = orig.method
    /\ pc # "idle" /\ op = "send" =>
          /\ request.method = orig.method
          /\ request.body = orig.body
          /\ request.uri = (IF hops >= 1 THEN followed ELSE orig.uri)
          /\ pc = "attempt" /\ tries = 1 => data = Payload(orig.body)
          /\ sent # NoSent => sent.method = orig.method
          /\ sent # NoSent /\ sent.data # None => Some(Get(sent.data).obj) = orig.body
          /\ sent # NoSent /\ sent.data = None => orig.body = None

\* C5's case: a POST with a body, redirected twice, answered 201 with a Location header
C5_Witness ==
    /\ pc = "done"
    /\ op = "send"
    /\ hops = 2
    /\ orig.method = "POST"
    /\ orig.body # None
    /\ orig.uri # followed
    /\ response # None
    /\ Rs.status = 201
    /\ Rs.location # NoneStr
    /\ Rs.uri = followed

\* C6 as stated: ResourceNotFound and ResourceConflict carry the URI that the caller
\* put on the request, whatever the number of redirects followed.
C6_OriginalUri ==
    pc = "done" /\ op = "send" /\ outcome.type \in {"ResourceNotFound", "ResourceConflict"} =>
        outcome.uri = orig.uri

\* C6, amended: when the final response status is 404 (resp. 409), Resource._send
\* raises ResourceNotFound (resp. ResourceConflict) carrying the uri of the request as
\* it is then: the URI the caller put on it when no redirect was followed, and the
\* Location of the last redirect followed otherwise.
C6_ErrorContext ==
    pc = "done" /\ op = "send" /\ response # None /\ Rs.status \in {404, 409} =>
        /\ outcome.kind = "raise"
        /\ outcome.type = (IF Rs.status = 404 THEN "ResourceNotFound" ELSE "ResourceConflict")
        /\ outcome.uri = (IF hops = 0 THEN orig.uri ELSE followed)

\* C6's case: 404 after one redirect to another URI
C6_Witness ==
    /\ pc = "done"
    /\ op = "send"
    /\ hops = 1
    /\ followed # orig.uri
    /\ outcome.type = "ResourceNotFound"
    /\ outcome.uri = followed

-----------------------------------------------------------------------------
(* Claims about Resource._lookup (LookupSpec) *)

\* the state part of C7: the first lookup on a cache that was never updated
C7_FirstLookup ==
    pc = "done" /\ op = "lookup" /\ wasFresh /\ response # None
                /\ Rs.status \in {200, 201} /\ TruthyDict(Rs.body) =>
        /\ gets = 1
        /\ orig = [method |-> "GET", uri |-> resource_uri, body |-> None]
        /\ sent.method = "GET"
        /\ hops = 0 => Rs.uri = resource_uri
        /\ properties = Get(Rs.body)
        /\ last_updated_time = Some(now)
        /\ key \in DOMAIN Get(Rs.body) =>
              outcome.kind = "return" /\ outcome.value = Get(Rs.body)[key]

\* the step part of C7: a lookup on a loaded cache sends nothing, and the cache stays loaded
C7_LaterLookups ==
    /\ pc = "idle" /\ properties # EmptyDict /\ op' = "lookup" =>
          /\ gets' = 0
          /\ pc' = "done"
          /\ request' = NoRequest
          /\ sent' = NoSent
          /\ properties' = properties
          /\ last_updated_time' = last_updated_time
          /\ key' \in DOMAIN properties =>
                outcome'.kind = "return" /\ outcome'.value = properties[key']
    /\ properties # EmptyDict => properties' = properties

\* C7: lazy metadata load.  On a Resource whose metadata cache was never updated, the
\* first _lookup(key) issues exactly one GET to the resource's own URI, replaces the
\* cache with the non-empty response body and returns the value of key; every later
\* _lookup issues no GET, for any number and order of later lookups.
C7_LazyLoad == [](C7_FirstLookup) /\ [][C7_LaterLookups]_vars

\* C7's case: a later lookup, at a later time, on the cache that a GET loaded
C7_Witness ==
    /\ pc = "done"
    /\ op = "lookup"
    /\ gets = 0
    /\ properties = [k \in {"name"} |-> "Alice"]
    /\ last_updated_time # None
    /\ now > Get(last_updated_time)
    /\ outcome.value = "Alice"

\* C8: outcomes of _lookup(key).  Whatever status answers the refresh GET, _lookup
\* returns the value stored under key in the refreshed cache, fails with KeyError when
\* key is absent after the refresh, or fails with one of the typed errors of
\* Resource._send; it has no other failure outcome.
C8_LookupOutcomes ==
    pc = "done" /\ op = "lookup" /\ response # None =>
        \/ /\ outcome.kind = "return"
           /\ outcome.type = "value"
           /\ key \in DOMAIN properties
           /\ outcome.value = properties[key]
        \/ /\ outcome.kind = "raise"
           /\ outcome.type = "KeyError"
           /\ key \notin DOMAIN properties
        \/ /\ outcome.kind = "raise"
           /\ outcome.type \in {"BadRequest", "ResourceNotFound", "ResourceConflict",
                                 "SystemError", "SocketError"}

-----------------------------------------------------------------------------
(* Claims about PropertyCache (CacheSpec) *)

\* C9: staleness.  expired is true exactly when last_updated_time and max_age are both
\* set and now - last_updated_time > max_age; needs_update is true exactly when the
\* mapping is empty or expired is true; so after update(P) with non-empty P,
\* needs_update is true exactly once the clock has advanced by more than max_age, for
\* every configured max_age.
C9_Staleness ==
    /\ Expired(last_updated_time, max_age, now) = Some(TRUE) <=>
          /\ last_updated_time # None
          /\ max_age # None
          /\ now - Get(last_updated_time) > Get(max_age)
    /\ NeedsUpdate(properties, last_updated_time, max_age, now) <=>
          \/ properties = EmptyDict
          \/ Expired(last_updated_time, max_age, now) = Some(TRUE)
    /\ updateArg.called /\ TruthyDict(updateArg.p) /\ max_age # None =>
          (NeedsUpdate(properties, last_updated_time, max_age, now) <=>
               now - Get(last_updated_time) > Get(max_age))

\* what update(p) leaves in the mapping: p, or nothing when p is None or empty
Replaced(p) == IF p # None /\ Get(p) # EmptyDict THEN Get(p) ELSE EmptyDict

\* C10: update replaces, never merges.  After update(P) the mapping is exactly P and
\* last_updated_time is the current time; after update(None), update of an empty
\* mapping or clear() the mapping is empty, the time is stamped all the same and
\* needs_update is true.  (In CacheSpec a step that leaves the clock alone is a call
\* of update or clear, and updateArg' is its argument.)
C10_UpdateReplaces ==
    [][now' = now =>
          /\ updateArg'.called
          /\ properties' = Replaced(updateArg'.p)
          /\ last_updated_time' = Some(now)
          /\ max_age' = max_age
          /\ Replaced(updateArg'.p) = EmptyDict =>
                NeedsUpdate(properties', last_updated_time', max_age', now')]_vars

\* C10's case: update(None) or clear() at a later time on a cache with a max_age
C10_Witness ==
    /\ updateArg.called
    /\ updateArg.p = None
    /\ properties = EmptyDict
    /\ max_age # None
    /\ now > 1
    /\ last_updated_time = Some(now)

-----------------------------------------------------------------------------
(* Claims about the thread-local Client (ThreadSpec) *)

Range(q) == {q[i] : i \in DOMAIN q}

\* the threads whose first call has passed the hasattr test and the assignment
Owners == {t \in Threads : tpc[t] = "return" \/ obtained[t] # <<>>}

\* C11: client isolation.  Under any interleaving of threads calling local_client /
\* Resource._client, every call of a thread returns the same Client, which was
\* constructed in that thread's first call (one Client per thread that got that
\* far, none more), and no Client, nor either of its connection mappings, is
\* returned to two different threads.
C11_ClientIsolation ==
    /\ \A t \in Threads : \A i \in DOMAIN obtained[t] :
          /\ obtained[t][i] \in DOMAIN clients
          /\ obtained[t][i] = obtained[t][1]
    /\ Len(clients) = Cardinality(Owners)
    /\ \A t, u \in Threads : t # u =>
          \A c \in Range(obtained[t]), d \in Range(obtained[u]) :
              /\ c # d
              /\ {clients[c].http, clients[c].https} \cap {clients[d].http, clients[d].https} = {}

\* two threads have each called twice, their calls interleaved
C11_Witness ==
    \E t, u \in Threads :
        /\ t # u
        /\ Len(obtained[t]) >= 2
        /\ Len(obtained[u]) >= 2
        /\ obtained[t][1] > obtained[u][1]
        /\ t < u

-----------------------------------------------------------------------------
(* Further claims about Resource._send and Client.send (Spec) *)

StatusErrors == {"BadRequest", "ResourceNotFound", "ResourceConflict", "SystemError"}

\* C12: redirect following never surfaces as an error.  Once a send has followed a
\* redirect, whatever the Location header was (a URI, or absent), the only errors
\* its caller can see are transport failures and the status-derived errors of the
\* final response.
C12_RedirectNeverFails ==
    pc = "done" /\ op = "send" /\ hops >= 1 /\ outcome.kind = "raise" =>
        outcome.type \in {"HTTPException", "SocketError"} \cup StatusErrors

\* C16: undecodable body.  When the body of a direct (non-redirect) response cannot
\* be decoded as JSON, Client.send returns a Response with the status received and
\* the body None; no parse error reaches the caller, who sees what the status
\* dispatch makes of that Response.
C16_UndecodableBody ==
    pc = "done" /\ op = "send" /\ reply # NoReply /\ LoadsFails(reply.raw) =>
        /\ response # None
        /\ Get(response).status = reply.status
        /\ Get(response).body = None
        /\ outcome.kind = "raise" => outcome.type \in StatusErrors
        /\ outcome.kind = "return" /\ outcome.type = "Response" =>
              Get(outcome.response).body = None

\* a 200 with a body that is not JSON: the caller holds a Response with body None
C16_Witness ==
    /\ pc = "done" /\ op = "send"
    /\ reply.status = 200 /\ reply.raw = "junk"
    /\ outcome.kind = "return" /\ outcome.type = "Response"

\* C19: one payload per logical send.  Every exchange attempt of a logical send, the
\* first and each retry, puts the same payload on the wire: request.body serialized
\* to JSON exactly once.
C19_SamePayload ==
    sent # NoSent =>
        sent.data = IF request.body = None
                    THEN None
                    ELSE Some([obj |-> Get(request.body), enc |-> 1])

-----------------------------------------------------------------------------
(* Claims about redirect chains (RedirectSpec) *)

\* hops counts the redirect responses received, attempts has one entry per logical send

-----------------------------------------------------------------------------
(* Further claims about Resource._lookup (LookupSpec) *)

\* the refresh GET of the lookup has returned a Response with body None or {}
EmptyRefresh ==
    /\ pc = "done" /\ op = "lookup"
    /\ response # None
    /\ Get(response).status \in {200, 201}
    /\ ~TruthyDict(Get(response).body)

\* after an empty refresh the cache is empty, stamped with the time of the refresh
C18_StaysEmpty ==
    EmptyRefresh =>
        /\ properties = EmptyDict
        /\ last_updated_time = Some(now)
        /\ outcome = Raised("KeyError", NoneStr, None)

\* a lookup over a cache that was refreshed and is empty issues one GET
C18_GetsAgain ==
    pc = "idle" /\ properties = EmptyDict /\ last_updated_time # None /\ op' = "lookup" =>
        /\ pc' = "attempt"
        /\ gets' = 1
        /\ request' = [method |-> "GET", uri |-> resource_uri, body |-> None]

\* C18: empty refresh re-triggers.  When the refresh GET of _lookup returns a Response
\* whose body is null or the empty object, the cache stays empty, and every later
\* _lookup over the still empty cache issues one new GET.
C18_EmptyRefreshRetriggers == [](C18_StaysEmpty) /\ [][C18_GetsAgain]_vars

\* a second empty refresh in a row has just ended, one time unit after the first
C18_Witness ==
    /\ EmptyRefresh
    /\ ~wasFresh
    /\ gets = 1
    /\ now = 2

\* this step begins a _lookup, or is a step of a _lookup that does not end it with
\* the Response of its refresh GET (the lookup goes on, or it ends in an error that
\* is not the KeyError of the read after the update)
LookupWithoutRefresh ==
    \/ pc = "idle" /\ op' = "lookup"
    \/ /\ op = "lookup" /\ pc = "attempt"
       /\ \/ pc' = "attempt"
          \/ pc' = "done" /\ outcome'.kind = "raise" /\ outcome'.type # "KeyError"

\* C20: failed refresh.  When the refresh GET inside _lookup fails (Resource._send or
\* the transport raises, or _send returns no Response), the metadata cache is as it
\* was before the lookup, in its mapping and its last_updated_time, and so is the
\* URI of the resource: no step of the lookup changes them.
C20_FailedRefreshFrame ==
    [][LookupWithoutRefresh =>
           UNCHANGED <<properties, last_updated_time, max_age, resource_uri>>]_vars

\* a lookup at time 2 over the cache emptied at time 1 has ended in SocketError, and
\* the cache still carries the time 1
C20_Witness ==
    /\ pc = "done" /\ op = "lookup"
    /\ outcome.type = "SocketError"
    /\ properties = EmptyDict
    /\ last_updated_time = Some(1)
    /\ now = 2

-----------------------------------------------------------------------------
(* Claims about Client._connection (ConnSpec) *)

\* the entry that the call selects, in the mappings m_http and m_https
Stored(c, m_http, m_https) ==
    IF c.scheme = "http" THEN m_http[c.netloc] ELSE m_https[c.netloc]

Held(h) == \E n \in Netlocs : http[n] = h \/ https[n] = h

\* a call of _connection with the arguments and the result in c
C13_Call(c) ==
    /\ c.scheme \in {"http", "https"} =>
          /\ c.ok
          /\ Stored(c, http, https) # 0 /\ ~c.reconnect =>
                /\ c.handle = Stored(c, http, https)
                /\ UNCHANGED <<http, https>>
          /\ Stored(c, http, https) = 0 \/ c.reconnect =>
                /\ c.handle # 0
                /\ ~Held(c.handle)
                /\ Stored(c, http', https') = c.handle
          /\ \A n \in Netlocs :
                /\ c.scheme # "http" \/ n # c.netloc => http'[n] = http[n]
                /\ c.scheme # "https" \/ n # c.netloc => https'[n] = https[n]
    /\ c.scheme \notin {"http", "https"} =>
          /\ ~c.ok
          /\ UNCHANGED <<http, https>>

\* C13: connection cache.  _connection(scheme, netloc, reconnect) with scheme http or
\* https returns the handle stored for (scheme, netloc) when there is one and
\* reconnect is false, and otherwise makes a new handle, stores it under
\* (scheme, netloc) and returns it; the two mappings are separate and the entries
\* of other keys are unchanged; any other scheme raises ValueError and both
\* mappings are unchanged.
C13_ConnectionCache == [][C13_Call(connCall')]_vars

\* a reconnect has replaced the https entry of "a" while the other three are set
C13_Witness ==
    /\ connCall.scheme = "https" /\ connCall.netloc = "a" /\ connCall.reconnect
    /\ https["a"] = connCall.handle
    /\ http["a"] # 0 /\ http["b"] # 0 /\ https["b"] # 0

-----------------------------------------------------------------------------
(* Claims about gremlin.execute (ExecSpec) *)

\* Resource._send has returned to execute (a Response or None), not raised
SendReturned == response # None /\ Dispatch(Get(response), request.uri).kind = "return"

\* C14: script helper.  With the endpoint address unset, execute raises
\* NotImplementedError and no request is made; otherwise its one _send is a POST to
\* that address with the script as the body, and whatever _send returns, execute
\* returns the decoded body of the response.
C14_ScriptHelper ==
    pc = "done" /\ op = "execute" =>
        /\ gremlin_uri = NoneStr =>
              /\ outcome = Raised("NotImplementedError", NoneStr, None)
              /\ orig = NoRequest /\ attempts = <<>> /\ sent = NoSent
        /\ gremlin_uri # NoneStr =>
              /\ \E script \in Scripts : orig = ScriptRequest(script)
              /\ SendReturned => outcome = ReturnedBody(Get(response).body)

-----------------------------------------------------------------------------
(* Claims about URI (UriSpec) *)

\* m is somewhere in s
In(m, s) == \E i \in 1..(Len(s) + 1) : Occurs(s, m, i)

\* the object's base and reference are the split of s at the last m, or ("", s)
SplitAtLast(s, m) ==
    /\ uri_obj.state = "URI"
    /\ uri_obj.base \o uri_obj.reference = s
    /\ In(m, s) =>
          /\ Occurs(s, m, Len(uri_obj.base) + 1)
          /\ \A i \in 1..(Len(s) + 1) : Occurs(s, m, i) => i <= Len(uri_obj.base) + 1
    /\ ~In(m, s) => uri_obj.base = <<>> /\ uri_obj.reference = s

\* C15 as claimed: for all strings s and all markers m, URI(s, m) raises nothing,
\* base + reference = s, the reference begins at the last m in s when there is
\* one, and base is empty when there is none.
C15_EveryMarker ==
    uri_obj.state # "none" => SplitAtLast(uri_arg.uri, uri_arg.marker)

\* C15: URI split.  For all strings s and all markers m that are not empty, URI(s, m)
\* raises nothing, base + reference = s, the reference begins at the last m in s
\* when there is one, and base is empty when there is none; for the empty marker
\* URI(s, m) raises ValueError.
C15_UriSplit ==
    uri_obj.state # "none" =>
        IF uri_arg.marker = <<>>
        THEN uri_obj.state = "ValueError"
        ELSE SplitAtLast(uri_arg.uri, uri_arg.marker)

\* the marker is twice in the string, and the split is at the second
C15_Witness ==
    /\ uri_obj.state = "URI"
    /\ uri_arg.marker # <<>>
    /\ Len(uri_obj.base) >= 1
    /\ \E i \in 1..Len(uri_obj.base) : Occurs(uri_arg.uri, uri_arg.marker, i)
    /\ Len(uri_obj.reference) > Len(uri_arg.marker)

====
